---- MODULE Spec2Model ----
(***************************************************************************)
(* A model of the QFNU notice monitor:                                     *)
(*   src/qfnu_monitor/core/qfnu_jwc_gg.py   QFNUJWCGGMonitor               *)
(*   src/qfnu_monitor/utils/onebot.py       OneBotSender and its wrappers  *)
(*                                                                         *)
(* The two JSON files of the store are the program's state.  One action    *)
(* is one call of a public operation: a whole monitor cycle, a store       *)
(* operation, or a call of one of the OneBot convenience wrappers.  The    *)
(* variables op, arg, before and out record the last call, its argument,   *)
(* the files it found and what it did, so that properties can speak about  *)
(* its effects.  pushed and written are the history of the cycles that     *)
(* have returned (kept in SpecCycles).  In SpecOverlap two processes run   *)
(* cycles concurrently, one file access or transport call per step.        *)
(***************************************************************************)
EXTENDS Integers, Sequences, FiniteSets, TLC

(***************************************************************************)
(* The field names of the records below.  TLC keeps the fields of a record *)
(* in the order in which their names first occur in the module, so they   *)
(* are named here once, alphabetically, and every record constructor lists *)
(* its fields alphabetically.                                              *)
(***************************************************************************)
FieldOrder ==
    [ all_notices |-> 0, arch |-> 0, archived |-> 0, blank_line_after |-> 0,
      body |-> 0, calls |-> 0, content |-> 0, count |-> 0, data |-> 0, date |-> 0, env |-> 0, error |-> 0, events |-> 0,
      failed_count |-> 0, feishu |-> 0, first_run |-> 0,
      group_id |-> 0, group_ids |-> 0, groups |-> 0, heading |-> 0,
      index |-> 0, io_failed |-> 0, kind |-> 0, link |-> 0, lost |-> 0,
      message |-> 0, new_notices |-> 0, notices |-> 0, notified |-> 0,
      onebot |-> 0, overlapped |-> 0, page |-> 0, pc |-> 0,
      posted |-> 0, posts |-> 0, push |-> 0, py |-> 0, raised |-> 0,
      responses |-> 0, result |-> 0, results |-> 0, stale |-> 0, status |-> 0,
      success_count |-> 0, text |-> 0, title |-> 0, total_groups |-> 0,
      type |-> 0, url |-> 0, v |-> 0, value |-> 0 ]

VARIABLES
    data_file,      \* jwc_gg_notices.json as its readers parse it (absent, empty
                    \* or not valid JSON = << >>)
    archive_file,   \* parsed content of jwc_gg_notices_archive.json
    op,             \* name of the last operation called
    arg,            \* its argument (the fetched page, or the notice list passed)
    before,         \* the two files as the call found them
    out,            \* what the call did: calls made, messages sent, result
    pushed,         \* notices handed to the transports by the cycles that returned
    written,        \* notices written to the active file by the cycles that returned
    running,        \* per process, the cycle it runs step by step (SpecOverlap)
    race,           \* what the overlapping cycles did to each other (SpecOverlap)
    undelivered     \* notices of returned cycles in which every transport failed
                    \* (SpecRetry)

vars == <<data_file, archive_file, op, arg, before, out, pushed, written,
          running, race, undelivered>>

(***************************************************************************)
(* Bounds.  max_notices is 30 in the source (qfnu_jwc_gg.py:24); the model *)
(* runs it scaled down so that the retention window overflows.             *)
(***************************************************************************)
max_notices == 2

\* the longest page fetched, and the longest list passed to a store operation
MaxFetch == 3

\* calls are made while the archive they leave holds at most this many notices
MaxArchive == 2

\* the same for the cycles of SpecCycles
MaxCycleArchive == 3

\* the longest list of target groups
MaxGroups == 2

\* the longest page fetched by the overlapping cycles of SpecOverlap
MaxOverlapFetch == 1

\* the number of cycles each process of SpecOverlap runs
MaxOverlapCycles == 2

(***************************************************************************)
(* Notices: {title, link, date} records (get_notices, line 48).  Two of    *)
(* Notices share the title "A": identity is the title alone.  The cycles   *)
(* of SpecCycles fetch pages of CycleNotices, three notices of different   *)
(* titles.                                                                 *)
(***************************************************************************)
Notice(t, l, d) == [date |-> d, link |-> l, title |-> t]

NoticeA == Notice("A", "a.htm", "01-01")

NoticeA2 == Notice("A", "a2.htm", "02-02")

NoticeB == Notice("B", "b.htm", "01-01")

NoticeC == Notice("C", "c.htm", "")

Notices == {NoticeA, NoticeA2, NoticeB}

CycleNotices == {NoticeA, NoticeB, NoticeC}

SeqsUpTo(S, n) == UNION { [1..k -> S] : k \in 0..n }

Range(s) == { s[i] : i \in 1..Len(s) }

TitlesOf(s) == { s[i].title : i \in 1..Len(s) }

(***************************************************************************)
(* Python slices of save_notices.                                          *)
(***************************************************************************)
\* a window that keeps one notice too many: notices[-(k + 1):]
LastKOffByOne(s, k) == IF Len(s) > k THEN SubSeq(s, Len(s) - k, Len(s)) ELSE s

\* a window taken at the wrong end: notices[:k]
FirstK(s, k) == IF Len(s) > k THEN SubSeq(s, 1, k) ELSE s

\* notices[-k:] if len(notices) > k else notices
LastK(s, k) == IF Len(s) > k THEN SubSeq(s, Len(s) - k + 1, Len(s)) ELSE s

\* notices[:-k], taken only when len(notices) > k
DropLastK(s, k) == SubSeq(s, 1, Len(s) - k)

(***************************************************************************)
(* File faults.  At most one file access of a call fails:                  *)
(*   read_data_monitor / read_data_append  json.load of the active file    *)
(*       raises; load_saved_notices returns [] (lines 59-61)               *)
(*   read_archive   the same in load_archived_notices (lines 74-76)        *)
(*   write_*_open   open(..., "w") raises: the file is left as it was      *)
(*   write_*_dump   json.dump raises after open truncated the file: what   *)
(*       is left is empty or not JSON, and loads as []                     *)
(***************************************************************************)
Faults ==
    { "none", "read_data_monitor", "read_data_append", "read_archive",
      "write_data_open", "write_data_dump",
      "write_archive_open", "write_archive_dump" }

\* the event of a call without faults at which a fault would strike
StrikesAt(fault) ==
    CASE fault = "read_data_monitor" -> <<"load", "data_file">>
      [] fault = "read_data_append" -> <<"load for append", "data_file">>
      [] fault = "read_archive" -> <<"load", "archive_file">>
      [] fault \in {"write_data_open", "write_data_dump"} -> <<"write", "data_file">>
      [] fault \in {"write_archive_open", "write_archive_dump"} ->
            <<"write", "archive_file">>
      [] OTHER -> <<"none", "none">>

\* the faults that can strike a call, given the events it has without one
FaultsAt(events) ==
    {"none"} \cup { fault \in Faults :
                        \E i \in 1..Len(events) : events[i] = StrikesAt(fault) }

\* load_saved_notices (lines 51-61)
load_saved_notices(data, failed) == IF failed THEN << >> ELSE data

\* load_archived_notices (lines 63-76)
load_archived_notices(arch, failed) == IF failed THEN << >> ELSE arch

LoadEvent(what, file, failed) ==
    << IF failed THEN <<what, file, "failed">> ELSE <<what, file>> >>

(***************************************************************************)
(* The store operations return the files they leave, the events of the     *)
(* call in order (file accesses and calls), whether a file access failed   *)
(* and whether an exception left the call.                                 *)
(***************************************************************************)
\* open(file, "w") and json.dump (lines 83-84, 98-99): content is what the
\* file held, value what is dumped, fault_open / fault_dump the faults that
\* hit this file
write_file(file, content, value, fault, fault_open, fault_dump) ==
    CASE fault = fault_open ->
           [content |-> content, events |-> << <<"open", file, "failed">> >>,
            raised |-> TRUE]
      [] fault = fault_dump ->
           [content |-> << >>, events |-> << <<"write", file, "failed">> >>,
            raised |-> TRUE]
      [] OTHER ->
           [content |-> value, events |-> << <<"write", file>> >>,
            raised |-> FALSE]

\* an archive written with the new entries first
archive_notices_prepend(notices_to_archive, data, arch, fault) ==
    IF notices_to_archive = << >>
    THEN [arch |-> arch, data |-> data, events |-> << >>,
          io_failed |-> FALSE, raised |-> FALSE]
    ELSE LET read_failed == fault = "read_archive"
             archived_notices == load_archived_notices(arch, read_failed)
             all_archived == notices_to_archive \o archived_notices
             w == write_file("archive_file", arch, all_archived, fault,
                             "write_archive_open", "write_archive_dump")
         IN  [arch |-> w.content, data |-> data,
              events |-> LoadEvent("load", "archive_file", read_failed) \o w.events,
              io_failed |-> read_failed \/ w.raised, raised |-> w.raised]

\* archive_notices (lines 90-101)
archive_notices(notices_to_archive, data, arch, fault) ==
    IF notices_to_archive = << >>
    THEN [arch |-> arch, data |-> data, events |-> << >>,
          io_failed |-> FALSE, raised |-> FALSE]
    ELSE LET read_failed == fault = "read_archive"
             archived_notices == load_archived_notices(arch, read_failed)
             all_archived == archived_notices \o notices_to_archive
             w == write_file("archive_file", arch, all_archived, fault,
                             "write_archive_open", "write_archive_dump")
         IN  [arch |-> w.content, data |-> data,
              events |-> LoadEvent("load", "archive_file", read_failed) \o w.events,
              io_failed |-> read_failed \/ w.raised, raised |-> w.raised]

\* a save that truncates and archives nothing
save_notices_no_archive(notices, data, arch, fault) ==
    LET latest_notices == LastK(notices, max_notices)
        w == write_file("data_file", data, latest_notices, fault,
                        "write_data_open", "write_data_dump")
    IN  [arch |-> arch, data |-> w.content, events |-> w.events,
         io_failed |-> w.raised, raised |-> w.raised]

\* save_notices (lines 78-88)
save_notices(notices, data, arch, fault) ==
    LET latest_notices == LastK(notices, max_notices)
        w == write_file("data_file", data, latest_notices, fault,
                        "write_data_open", "write_data_dump")
    IN  IF w.raised \/ Len(notices) <= max_notices
        THEN [arch |-> arch, data |-> w.content, events |-> w.events,
              io_failed |-> w.raised, raised |-> w.raised]
        ELSE LET r == archive_notices(DropLastK(notices, max_notices),
                                      w.content, arch, fault)
             IN  [r EXCEPT !.events = w.events \o << <<"call", "archive_notices">> >> \o @]

\* an append that saves the new notices alone, without loading the file
append_new_notices_overwrite(new_notices, data, arch, fault) ==
    save_notices(new_notices, data, arch, fault)

\* append_new_notices (lines 103-107)
append_new_notices(new_notices, data, arch, fault) ==
    LET read_failed == fault = "read_data_append"
        saved_notices == load_saved_notices(data, read_failed)
        all_notices == saved_notices \o new_notices
        r == save_notices(all_notices, data, arch, fault)
    IN  [r EXCEPT !.events = LoadEvent("load for append", "data_file", read_failed) \o @,
                  !.io_failed = read_failed \/ @]

\* a diff that compares whole notices instead of titles
find_new_notices_by_record(current_notices, saved_notices) ==
    IF saved_notices = << >>
    THEN current_notices
    ELSE SelectSeq(current_notices, LAMBDA notice : notice \notin Range(saved_notices))

\* a diff that filters nothing
find_new_notices_unfiltered(current_notices, saved_notices) == current_notices

\* find_new_notices (lines 109-116)
find_new_notices(current_notices, saved_notices) ==
    IF saved_notices = << >>
    THEN current_notices
    ELSE SelectSeq(current_notices,
                   LAMBDA notice : notice.title \notin TitlesOf(saved_notices))

(***************************************************************************)
(* Messages.  A Python value that may be a str or a list carries its type, *)
(* since send_group_message branches on isinstance(message, str).  The     *)
(* text of a notification is kept as its parts: the count in the heading   *)
(* and, per notice, the numbered lines push_to_feishu / push_to_onebot     *)
(* write, the last entry without the blank line after it.                  *)
(***************************************************************************)
Str(x) == [py |-> "str", v |-> x]

List(x) == [py |-> "list", v |-> x]

\* the loop of lines 125-131 and 143-149
Entries(new_notices) ==
    [ i \in 1..Len(new_notices) |->
        [ blank_line_after |-> (i # Len(new_notices)),
          date  |-> new_notices[i].date,
          index |-> i,
          link  |-> new_notices[i].link,
          title |-> new_notices[i].title ] ]

\* push_to_feishu's arguments to feishu(title, content) (lines 122-133)
FeishuMessage(new_notices) ==
    [ content |-> Entries(new_notices), title |-> [count |-> Len(new_notices)] ]

\* push_to_onebot's message (lines 141-149)
OnebotMessage(new_notices) ==
    Str([ body |-> Entries(new_notices), heading |-> [count |-> Len(new_notices)] ])

(***************************************************************************)
(* OneBot.  A string is a sequence of characters, so that strip() is       *)
(* computed.  ONEBOT_TARGET_GROUPS is given as its pieces between commas.  *)
(***************************************************************************)
RECURSIVE LStrip(_)
LStrip(s) == IF s # << >> /\ Head(s) = " " THEN LStrip(Tail(s)) ELSE s

RECURSIVE RStrip(_)
RStrip(s) ==
    IF s # << >> /\ s[Len(s)] = " " THEN RStrip(SubSeq(s, 1, Len(s) - 1)) ELSE s

Strip(s) == RStrip(LStrip(s))

\* _parse_target_groups (lines 39-53); "" splits into the one piece ""
parse_target_groups(pieces) ==
    LET stripped == [ i \in 1..Len(pieces) |-> Strip(pieces[i]) ]
    IN  SelectSeq(stripped, LAMBDA g : g # << >>)

\* "not self.onebot_url": the variable is unset (None) or empty
UrlMissing(url) == url = "None" \/ url = ""

(***************************************************************************)
(* What requests.post and response.json() do for one target:               *)
(*   network    requests.post raises a RequestException                    *)
(*   not_json   response.json() raises a JSON decode error                 *)
(*   json_list  the body is JSON but no object                             *)
(*   json       the body is the object `body`                              *)
(***************************************************************************)
Responses ==
    { [kind |-> "network"], [kind |-> "not_json"], [kind |-> "json_list"],
      [body |-> [status |-> "ok"], kind |-> "json"],
      [body |-> [message |-> "denied", status |-> "failed"], kind |-> "json"],
      [body |-> [status |-> "failed"], kind |-> "json"] }

HasError(result) == "error" \in DOMAIN result

\* send_group_message (lines 70-138).  In the handlers of lines 121-132 the
\* logging call reads `result`, which is unbound when requests.post or
\* response.json() raised: the handler itself raises UnboundLocalError.
send_group_message(group_id, message, onebot_url, response) ==
    IF UrlMissing(onebot_url)
    THEN [posted |-> FALSE, raised |-> FALSE, value |-> [error |-> "url not configured"]]
    ELSE CASE response.kind \in {"network", "not_json"} ->
               [posted |-> TRUE, raised |-> TRUE, value |-> "UnboundLocalError"]
           [] response.kind = "json_list" ->
               [posted |-> TRUE, raised |-> FALSE, value |-> [error |-> "unknown error"]]
           [] OTHER ->
               IF response.body.status = "ok"
               THEN [posted |-> TRUE, raised |-> FALSE, value |-> response.body]
               ELSE [posted |-> TRUE, raised |-> FALSE,
                     value |-> [error |-> IF "message" \in DOMAIN response.body
                                          THEN response.body.message
                                          ELSE "unknown error"]]

\* the message as sent: a str becomes one text segment (lines 92-97)
formatted_message(message) ==
    IF message.py = "str"
    THEN List(<< [data |-> [text |-> message.v], type |-> "text"] >>)
    ELSE message

\* The loop of lines 161-166 and 205-210 from target i on.  acc holds
\* results, success_count and the POSTs made so far; an exception leaving
\* send_group_message leaves the loop.
RECURSIVE send_loop(_, _, _, _, _, _)
send_loop(group_ids, i, message, onebot_url, responses, acc) ==
    IF i > Len(group_ids)
    THEN [acc EXCEPT !.raised = FALSE]
    ELSE LET r == send_group_message(group_ids[i], message, onebot_url, responses[i])
             post == [group_id |-> group_ids[i], message |-> formatted_message(message)]
             posts == IF r.posted THEN Append(acc.posts, post) ELSE acc.posts
         IN  IF r.raised
             THEN [acc EXCEPT !.raised = TRUE, !.posts = posts]
             ELSE send_loop(group_ids, i + 1, message, onebot_url, responses,
                            [posts |-> posts,
                             raised |-> FALSE,
                             results |-> (group_ids[i] :> r.value) @@ acc.results,
                             success_count |-> IF HasError(r.value)
                                               THEN acc.success_count
                                               ELSE acc.success_count + 1])

EmptyAcc == [posts |-> << >>, raised |-> FALSE, results |-> << >>, success_count |-> 0]

\* the summary of lines 168-173 and 212-217
Summary(group_ids, acc) ==
    [ failed_count |-> Len(group_ids) - acc.success_count,
      results |-> acc.results,
      success_count |-> acc.success_count,
      total_groups |-> Len(group_ids) ]

\* send_to_all_groups (lines 140-182)
send_to_all_groups(target_groups, message, onebot_url, responses) ==
    IF target_groups = << >>
    THEN [posts |-> << >>, raised |-> FALSE, value |-> [error |-> "no target groups"]]
    ELSE LET acc == send_loop(target_groups, 1, message, onebot_url, responses, EmptyAcc)
         IN  [posts |-> acc.posts, raised |-> acc.raised,
              value |-> IF acc.raised THEN "UnboundLocalError"
                        ELSE Summary(target_groups, acc)]

\* send_to_specific_groups (lines 184-222)
send_to_specific_groups(group_ids, message, onebot_url, responses) ==
    IF group_ids = << >>
    THEN [posts |-> << >>, raised |-> FALSE, value |-> [error |-> "empty group list"]]
    ELSE LET acc == send_loop(group_ids, 1, message, onebot_url, responses, EmptyAcc)
         IN  [posts |-> acc.posts, raised |-> acc.raised,
              value |-> IF acc.raised THEN "UnboundLocalError"
                        ELSE Summary(group_ids, acc)]

\* a constructor that does not check the URL
sender_init_unchecked(env) == FALSE

\* OneBotSender.__init__ (lines 22-37): raises ValueError without a URL
sender_init_raises(env) == UrlMissing(env.url)

\* what the wrappers return for an exception caught at lines 241-244 / 265-268
WrapperError(exc) == [error |-> <<"OneBot send failed", exc>>]

\* onebot_send_all (lines 226-244)
onebot_send_all(message, env, responses) ==
    IF sender_init_raises(env)
    THEN [posts |-> << >>, value |-> WrapperError("ValueError")]
    ELSE LET r == send_to_all_groups(parse_target_groups(env.groups), message,
                                     env.url, responses)
         IN  [posts |-> r.posts,
              value |-> IF r.raised THEN WrapperError(r.value) ELSE r.value]

\* onebot_send_groups (lines 247-268)
onebot_send_groups(group_ids, message, env, responses) ==
    IF sender_init_raises(env)
    THEN [posts |-> << >>, value |-> WrapperError("ValueError")]
    ELSE LET r == send_to_specific_groups(group_ids, message, env.url, responses)
         IN  [posts |-> r.posts,
              value |-> IF r.raised THEN WrapperError(r.value) ELSE r.value]

(***************************************************************************)
(* The monitor.                                                            *)
(***************************************************************************)
\* what feishu(title, content) may do; its return value is not read
FeishuOutcomes == {"ok", "raise"}

\* push_to_feishu (lines 118-133): returns at once on an empty list (lines
\* 119-120); otherwise builds the message and calls feishu, whose exception
\* leaves the call.  calls are the messages handed to feishu.
push_to_feishu(new_notices, feishu_outcome) ==
    IF new_notices = << >>
    THEN [calls |-> << >>, raised |-> FALSE]
    ELSE [calls |-> << FeishuMessage(new_notices) >>,
          raised |-> feishu_outcome = "raise"]

\* push_to_onebot (lines 135-157): returns at once on an empty list (lines
\* 137-138); otherwise builds the message, calls onebot_send_all and logs an
\* error when the result has an "error" key.  calls are the messages handed
\* to onebot_send_all.
push_to_onebot(new_notices, env, responses) ==
    IF new_notices = << >>
    THEN [calls |-> << >>, error |-> FALSE]
    ELSE [calls |-> << OnebotMessage(new_notices) >>,
          error |-> HasError(onebot_send_all(OnebotMessage(new_notices),
                                             env, responses).value)]

\* no transport was called
Quiet == [events |-> << >>, feishu |-> << >>, onebot |-> << >>, raised |-> FALSE]

\* the calls of feishu that push_to_feishu made, with their outcome
FeishuEvent(f) ==
    IF f.calls = << >> THEN << >>
    ELSE IF f.raised THEN << <<"call", "feishu", "raised">> >>
    ELSE << <<"call", "feishu">> >>

\* the calls of onebot_send_all that push_to_onebot made, with their outcome
OnebotEvent(o) ==
    IF o.calls = << >> THEN << >>
    ELSE IF o.error THEN << <<"call", "onebot_send_all", "error">> >>
    ELSE << <<"call", "onebot_send_all">> >>

\* the pushes without the try blocks: an exception of feishu leaves the call
push_notifications_unguarded(new_notices, feishu_outcome, env, responses) ==
    IF new_notices = << >>
    THEN Quiet
    ELSE LET f == push_to_feishu(new_notices, feishu_outcome)
             o == push_to_onebot(new_notices, env, responses)
         IN  IF f.raised
             THEN [ events |-> FeishuEvent(f), feishu |-> f.calls,
                    onebot |-> << >>, raised |-> TRUE ]
             ELSE [ events |-> FeishuEvent(f) \o OnebotEvent(o),
                    feishu |-> f.calls, onebot |-> o.calls,
                    raised |-> FALSE ]

\* push_notifications (lines 159-174).  Both try blocks catch Exception, so
\* nothing leaves the call (raised is FALSE).  feishu and onebot are the
\* messages handed to the two transports.
push_notifications(new_notices, feishu_outcome, env, responses) ==
    IF new_notices = << >>
    THEN Quiet
    ELSE LET f == push_to_feishu(new_notices, feishu_outcome)
             o == push_to_onebot(new_notices, env, responses)
         IN  [ events |-> FeishuEvent(f) \o OnebotEvent(o),
               feishu |-> f.calls, onebot |-> o.calls,
               raised |-> FALSE ]

\* lines 187-211 of monitor: the cycle from the load of the active file on
monitor_steps(current_notices, data, arch, fault, feishu_outcome, env, responses) ==
    LET read_failed == fault = "read_data_monitor"
        saved_notices == load_saved_notices(data, read_failed)
        is_first_run == saved_notices = << >>
        new_notices == find_new_notices(current_notices, saved_notices)
        loaded == LoadEvent("load", "data_file", read_failed)
    IN  IF new_notices = << >>
        THEN [arch |-> arch, data |-> data, events |-> loaded,
              first_run |-> is_first_run, io_failed |-> read_failed,
              new_notices |-> << >>, push |-> Quiet, raised |-> FALSE]
        ELSE IF is_first_run
        THEN LET r == save_notices(current_notices, data, arch, fault)
             IN  [arch |-> r.arch, data |-> r.data,
                  events |-> loaded \o << <<"call", "save_notices">> >>
                             \o r.events,
                  first_run |-> TRUE,
                  io_failed |-> read_failed \/ r.io_failed,
                  new_notices |-> new_notices, push |-> Quiet,
                  raised |-> r.raised]
        ELSE LET p == push_notifications(new_notices, feishu_outcome, env, responses)
                 r == append_new_notices(new_notices, data, arch, fault)
             IN  IF p.raised
                 THEN [arch |-> arch, data |-> data,
                       events |-> loaded \o p.events,
                       first_run |-> FALSE, io_failed |-> read_failed,
                       new_notices |-> new_notices, push |-> p,
                       raised |-> TRUE]
                 ELSE [arch |-> r.arch, data |-> r.data,
                       events |-> loaded \o p.events
                                  \o << <<"call", "append_new_notices">> >>
                                  \o r.events,
                       first_run |-> FALSE,
                       io_failed |-> read_failed \/ r.io_failed,
                       new_notices |-> new_notices, push |-> p,
                       raised |-> r.raised]

\* the cycle ended without a step after the fetch (lines 183-185, 213-214)
Stopped(page, data, arch) ==
    [arch |-> arch, data |-> data, events |-> << >>, first_run |-> FALSE,
     io_failed |-> FALSE, new_notices |-> << >>, push |-> Quiet,
     raised |-> page.raised]

\* a cycle that goes on with an empty page
monitor_without_empty_check(page, data, arch, fault, feishu_outcome, env, responses) ==
    IF page.raised
    THEN Stopped(page, data, arch)
    ELSE monitor_steps(page.notices, data, arch, fault, feishu_outcome, env, responses)

\* monitor (lines 176-214).  page is what get_html/get_notices produce:
\* the request raises, or the notices come in page order.  An exception
\* that leaves a step ends the cycle in the handler of lines 213-214.
monitor(page, data, arch, fault, feishu_outcome, env, responses) ==
    IF page.raised \/ page.notices = << >>
    THEN Stopped(page, data, arch)
    ELSE monitor_steps(page.notices, data, arch, fault, feishu_outcome, env, responses)

(***************************************************************************)
(* Inputs.                                                                 *)
(***************************************************************************)
PagesOf(notices) ==
    { [notices |-> s, raised |-> FALSE] : s \in SeqsUpTo(notices, MaxFetch) }
        \cup { [notices |-> << >>, raised |-> TRUE] }

Pages == PagesOf(Notices)

CyclePages == PagesOf(CycleNotices)

\* what a monitor cycle finds of OneBot: no URL configured, or one target
\* group that answers ok, answers failed, or cannot be reached
NoOnebot == [env |-> [groups |-> << >>, url |-> "None"], responses |-> << >>]

MonitorOnebot ==
    { NoOnebot }
        \cup { [env |-> [groups |-> << <<"1">> >>, url |-> "http://bot"],
                 responses |-> << response >>] :
                 response \in { [body |-> [status |-> "ok"], kind |-> "json"],
                                [body |-> [status |-> "failed"], kind |-> "json"],
                                [kind |-> "network"] } }

\* pieces of ONEBOT_TARGET_GROUPS between commas: "1", " 2 ", " "
Pieces == { <<"1">>, <<" ", "2", " ">>, <<" ">> }

GroupIds == { <<"1">>, <<"2">> }

Urls == {"None", "", "http://bot"}

\* one response per target of the list
ResponsesFor(group_ids) == [1..Len(group_ids) -> Responses]

(***************************************************************************)
(* Actions.  A call is made when no call is in progress (op = "idle") and  *)
(* leaves its record in op, arg, before and out; Return hands the result   *)
(* to the caller and drops the record.  The files are all that a call      *)
(* finds of the calls before it.                                           *)
(***************************************************************************)
NoCall == [events |-> << >>]

NoFiles == [arch |-> << >>, data |-> << >>]

\* the processes that call monitor()
Procs == {1, 2}

\* a process that is not in a cycle, having run count cycles
Between(count) ==
    [all_notices |-> << >>, archived |-> << >>, count |-> count,
     new_notices |-> << >>, notified |-> {}, page |-> << >>, pc |-> "idle"]

NoCycle == Between(0)

NoRace == [lost |-> FALSE, overlapped |-> FALSE, stale |-> FALSE]

Init ==
    /\ data_file = << >>
    /\ archive_file = << >>
    /\ op = "idle"
    /\ arg = << >>
    /\ before = NoFiles
    /\ out = NoCall
    /\ pushed = {}
    /\ written = {}
    /\ running = [p \in Procs |-> NoCycle]
    /\ race = NoRace
    /\ undelivered = {}

Return ==
    /\ op # "idle"
    /\ op' = "idle"
    /\ arg' = << >>
    /\ before' = NoFiles
    /\ out' = NoCall
    /\ UNCHANGED <<data_file, archive_file, pushed, written, running, race, undelivered>>

\* a write of the active file that succeeded is among the events
WroteData(events) == \E i \in 1..Len(events) : events[i] = <<"write", "data_file">>

\* the call of feishu raised
FeishuRaised(events) ==
    \E i \in 1..Len(events) : events[i] = <<"call", "feishu", "raised">>

\* the call of onebot_send_all failed
OnebotFailed(events) ==
    \E i \in 1..Len(events) : events[i] = <<"call", "onebot_send_all", "error">>

\* the return of a cycle whose pushes and writes enter the history
ReturnCycle ==
    /\ op = "monitor"
    /\ op' = "idle"
    /\ arg' = << >>
    /\ before' = NoFiles
    /\ out' = NoCall
    /\ pushed' = pushed \cup (IF out.feishu # << >> \/ out.onebot # << >>
                              THEN Range(out.new_notices) ELSE {})
    /\ written' = written \cup (IF WroteData(out.events)
                                THEN Range(data_file) ELSE {})
    /\ UNCHANGED <<data_file, archive_file, running, race, undelivered>>

\* one monitor cycle with its inputs
MonitorWith(page, fault, feishu_outcome, onebot, cap) ==
    \E r \in { monitor(page, data_file, archive_file, fault, feishu_outcome,
                       onebot.env, onebot.responses) } :
        /\ Len(r.arch) <= cap
        /\ data_file' = r.data
        /\ archive_file' = r.arch
        /\ op' = "monitor"
        /\ arg' = page
        /\ before' = [arch |-> archive_file, data |-> data_file]
        /\ out' = [events |-> r.events, feishu |-> r.push.feishu,
                   first_run |-> r.first_run, io_failed |-> r.io_failed,
                   new_notices |-> r.new_notices, onebot |-> r.push.onebot,
                   raised |-> r.raised]
        /\ UNCHANGED <<pushed, written, running, race, undelivered>>

\* a cycle on one of pages.  A fault strikes where the cycle has a file
\* access; the transports have each of their outcomes in the cycles without
\* a file fault that reach them.
MonitorCycle(pages, faults, cap) ==
    /\ op = "idle"
    /\ \E page \in pages :
        \E plain \in { monitor(page, data_file, archive_file, "none", "ok",
                               NoOnebot.env, NoOnebot.responses) } :
            \E fault \in FaultsAt(plain.events) \cap faults :
                IF plain.push.feishu # << >> /\ fault = "none"
                THEN \E feishu_outcome \in FeishuOutcomes, onebot \in MonitorOnebot :
                        MonitorWith(page, fault, feishu_outcome, onebot, cap)
                ELSE MonitorWith(page, fault, "ok", NoOnebot, cap)

\* one monitor cycle
Monitor == MonitorCycle(Pages, Faults, MaxArchive)

\* one monitor cycle in which no file access fails
TrackedMonitor == MonitorCycle(CyclePages, {"none"}, MaxCycleArchive)

\* no two notices of the page have the same title
DistinctTitles(notices) ==
    \A i, j \in 1..Len(notices) : notices[i].title = notices[j].title => i = j

\* the pages that fit the active window: at most max_notices notices (the
\* comment of line 24), pairwise distinct titles
WindowPages ==
    { page \in CyclePages :
        Len(page.notices) <= max_notices /\ DistinctTitles(page.notices) }

\* one monitor cycle on a page that fits the window, no file access failing
WindowMonitor == MonitorCycle(WindowPages, {"none"}, MaxCycleArchive)

StoreResult(name, notices, r) ==
    /\ Len(r.arch) <= MaxArchive
    /\ data_file' = r.data
    /\ archive_file' = r.arch
    /\ op' = name
    /\ arg' = notices
    /\ before' = [arch |-> archive_file, data |-> data_file]
    /\ out' = [events |-> r.events, io_failed |-> r.io_failed, raised |-> r.raised]
    /\ UNCHANGED <<pushed, written, running, race, undelivered>>

\* save_notices called with a notice list
SaveNotices ==
    /\ op = "idle"
    /\ \E notices \in SeqsUpTo(Notices, MaxFetch) :
        \E fault \in FaultsAt(save_notices(notices, data_file, archive_file,
                                           "none").events) :
            \E r \in { save_notices(notices, data_file, archive_file, fault) } :
                StoreResult("save_notices", notices, r)

\* append_new_notices called with a notice list
AppendNewNotices ==
    /\ op = "idle"
    /\ \E notices \in SeqsUpTo(Notices, MaxFetch) :
        \E fault \in FaultsAt(append_new_notices(notices, data_file, archive_file,
                                                 "none").events) :
            \E r \in { append_new_notices(notices, data_file, archive_file, fault) } :
                StoreResult("append_new_notices", notices, r)

\* archive_notices called with a notice list
ArchiveNotices ==
    /\ op = "idle"
    /\ \E notices \in SeqsUpTo(Notices, MaxFetch) :
        \E fault \in FaultsAt(archive_notices(notices, data_file, archive_file,
                                              "none").events) :
            \E r \in { archive_notices(notices, data_file, archive_file, fault) } :
                StoreResult("archive_notices", notices, r)

Next == Monitor \/ SaveNotices \/ AppendNewNotices \/ ArchiveNotices \/ Return

Spec == Init /\ [][Next]_vars

\* the cycles alone, as a scheduler that serialises them runs the program
NextCycles == TrackedMonitor \/ ReturnCycle

SpecCycles == Init /\ [][NextCycles]_vars

\* the return of a cycle, remembering the notices no transport delivered
ReturnDelivery ==
    /\ op = "monitor"
    /\ op' = "idle"
    /\ arg' = << >>
    /\ before' = NoFiles
    /\ out' = NoCall
    /\ undelivered' = undelivered
            \cup (IF FeishuRaised(out.events) /\ OnebotFailed(out.events)
                  THEN Range(out.new_notices) ELSE {})
    /\ UNCHANGED <<data_file, archive_file, pushed, written, running, race>>

\* one monitor cycle in which no file access fails
RetryMonitor == MonitorCycle(CyclePages, {"none"}, MaxArchive)

\* serial cycles, with the failed deliveries remembered
NextRetry == RetryMonitor \/ ReturnDelivery

SpecRetry == Init /\ [][NextRetry]_vars

\* cycles whose pages all fit the active window
NextWindow == WindowMonitor \/ ReturnCycle

SpecWindow == Init /\ [][NextWindow]_vars

OnebotResult(name, group_ids, message, env, responses, r) ==
    /\ op' = name
    /\ arg' = [group_ids |-> group_ids, message |-> message,
               responses |-> responses, url |-> env.url]
    /\ out' = [posts |-> r.posts, result |-> r.value]
    /\ UNCHANGED <<data_file, archive_file, before, pushed, written, running, race, undelivered>>

\* onebot_send_all called with a message
OnebotSendAll ==
    /\ op = "idle"
    /\ \E url \in Urls, groups \in SeqsUpTo(Pieces, MaxGroups) :
        LET env == [groups |-> groups, url |-> url]
            message == Str("hello")
            group_ids == parse_target_groups(groups)
        IN  \E responses \in IF UrlMissing(url) THEN {<< >>} ELSE ResponsesFor(group_ids) :
                \E r \in { onebot_send_all(message, env, responses) } :
                    OnebotResult("onebot_send_all", group_ids, message, env,
                                 responses, r)

\* onebot_send_groups called with a list of group ids and a message
OnebotSendGroups ==
    /\ op = "idle"
    /\ \E url \in Urls, group_ids \in SeqsUpTo(GroupIds, MaxGroups) :
        LET env == [groups |-> << >>, url |-> url]
            message == List(<< [data |-> [text |-> "hello"], type |-> "text"] >>)
        IN  \E responses \in IF UrlMissing(url) THEN {<< >>} ELSE ResponsesFor(group_ids) :
                \E r \in { onebot_send_groups(group_ids, message, env, responses) } :
                    OnebotResult("onebot_send_groups", group_ids, message, env,
                                 responses, r)

\* send_group_message called on a sender that was constructed (its URL is
\* configured) with a group id and a message; raised says whether an
\* exception left the call
SendGroupMessage ==
    /\ op = "idle"
    /\ \E group_id \in GroupIds, response \in Responses,
          message \in { Str("hello"),
                        List(<< [data |-> [text |-> "hello"], type |-> "text"] >>) } :
        \E r \in { send_group_message(group_id, message, "http://bot", response) } :
            /\ op' = "send_group_message"
            /\ arg' = [group_ids |-> << group_id >>, message |-> message,
                       responses |-> << response >>, url |-> "http://bot"]
            /\ out' = [posts |-> IF r.posted
                                 THEN << [group_id |-> group_id,
                                          message |-> formatted_message(message)] >>
                                 ELSE << >>,
                       raised |-> r.raised, result |-> r.value]
            /\ UNCHANGED <<data_file, archive_file, before, pushed, written, running, race, undelivered>>

NextOneBot == OnebotSendAll \/ OnebotSendGroups \/ SendGroupMessage \/ Return

SpecOneBot == Init /\ [][NextOneBot]_vars

(***************************************************************************)
(* Overlapping cycles.  Nothing in monitor() locks the files, so two       *)
(* processes that call it at once interleave at every file access and      *)
(* transport call.  A step is the code up to and including one access of a *)
(* shared file (or the call of the transports): Begin fetches the page and *)
(* loads the active file (lines 179-194), Push is push_notifications (line *)
(* 207), AppendLoad the load of append_new_notices (line 104), OpenData    *)
(* and DumpData the open, which truncates the file, and the dump and close *)
(* of save_notices (lines 83-84), ArchiveLoad, OpenArchive and DumpArchive *)
(* the load, the open and the dump of archive_notices (lines 95-99).  A    *)
(* file that is empty or does not parse reads as << >>.  race records      *)
(* whether a process stepped while the other was in a cycle (overlapped),  *)
(* whether notices were pushed whose titles the active file held at that   *)
(* moment (stale), and whether a write dropped notices that the file held  *)
(* and that are then in neither file (lost).                               *)
(***************************************************************************)
OverlapPages == SeqsUpTo(CycleNotices, MaxOverlapFetch)

\* another process is in a cycle
Overlaps(p) == \E q \in Procs \ {p} : running[q].pc # "idle"

\* process p goes on to cycle, having lost or pushed stale notices or not
Step(p, cycle, lost, stale) ==
    /\ running' = [running EXCEPT ![p] = cycle]
    /\ race' = [lost |-> race.lost \/ lost,
                overlapped |-> race.overlapped \/ Overlaps(p),
                stale |-> race.stale \/ stale]
    /\ UNCHANGED <<op, arg, before, out, pushed, written, undelivered>>

\* the cycle of process p is over; what it notified is remembered
Ended(p) == [Between(running[p].count) EXCEPT !.notified = running[p].notified]

\* lines 179-194: fetch, return on an empty page, load the active file, diff
Begin(p) ==
    /\ running[p].pc = "idle"
    /\ running[p].count < MaxOverlapCycles
    /\ \E page \in OverlapPages :
        \E saved_notices \in { load_saved_notices(data_file, FALSE) } :
            \E new_notices \in { find_new_notices(page, saved_notices) } :
                Step(p,
                     IF page = << >> \/ new_notices = << >>
                     THEN Between(running[p].count + 1)
                     ELSE [all_notices |-> IF saved_notices = << >> THEN page ELSE << >>,
                           archived |-> << >>,
                           count |-> running[p].count + 1,
                           new_notices |-> new_notices,
                           notified |-> {},
                           page |-> page,
                           pc |-> IF saved_notices = << >> THEN "write_data" ELSE "push"],
                     FALSE, FALSE)
    /\ UNCHANGED <<data_file, archive_file>>

\* line 207: push_notifications(new_notices)
Push(p) ==
    /\ running[p].pc = "push"
    /\ Step(p,
            [running[p] EXCEPT !.notified = Range(running[p].new_notices),
                               !.pc = "append_load"],
            FALSE,
            TitlesOf(running[p].new_notices) \cap TitlesOf(data_file) # {})
    /\ UNCHANGED <<data_file, archive_file>>

\* lines 104-105: saved_notices = load_saved_notices(); all_notices = ...
AppendLoad(p) ==
    /\ running[p].pc = "append_load"
    /\ Step(p,
            [running[p] EXCEPT
                !.all_notices = load_saved_notices(data_file, FALSE)
                                    \o running[p].new_notices,
                !.pc = "write_data"],
            FALSE, FALSE)
    /\ UNCHANGED <<data_file, archive_file>>

\* the bytes json.dump(..., ensure_ascii=False, indent=2) writes for one
\* notice, the separator after it included: 57 bytes of keys, quotes,
\* indentation and line ends, and the three values (ASCII in the model)
EntryBytes(notice) ==
    57 + Len(notice.title) + Len(notice.link) + Len(notice.date)

RECURSIVE EntriesBytes(_)
EntriesBytes(notices) ==
    IF notices = << >> THEN 0
    ELSE EntryBytes(Head(notices)) + EntriesBytes(Tail(notices))

\* the bytes of the dump of a list (lines 84, 99): "[]" for the empty list,
\* else the brackets and the entries, the last without its separator
DumpBytes(notices) ==
    IF notices = << >> THEN 2 ELSE 2 + EntriesBytes(notices)

\* the bytes of a file between the open of a process and its dump: none
\* when the file is still truncated, else the dump of the other process
\* (with two processes a file that does not parse is truncated before the
\* next dump)
FileBytes(on_disk) ==
    IF on_disk = << >> THEN 0 ELSE DumpBytes(on_disk)

\* what a file holds, as its readers parse it, after a process whose open
\* found it empty has dumped notices at offset 0 while on_disk is what
\* another process dumped in between.  A dump of fewer bytes leaves the
\* tail of on_disk behind it: json.load raises on it and the loaders return
\* [] (lines 59-61, 74-76).
Dumped(on_disk, notices) ==
    IF FileBytes(on_disk) > DumpBytes(notices) THEN << >> ELSE notices

\* line 83: open(self.data_file, "w") truncates the active file
OpenData(p) ==
    /\ running[p].pc = "write_data"
    /\ data_file' = << >>
    /\ Step(p,
            [running[p] EXCEPT !.pc = "dump_data"],
            \E n \in Range(data_file) :
                n \notin Range(running[p].all_notices) \cup Range(archive_file),
            FALSE)
    /\ UNCHANGED archive_file

\* lines 80-88: json.dump of the last max_notices of the list this process
\* holds, and the close of the file; then the archive if the list is longer
DumpData(p) ==
    /\ running[p].pc = "dump_data"
    /\ data_file' = Dumped(data_file, LastK(running[p].all_notices, max_notices))
    /\ Step(p,
            IF Len(running[p].all_notices) > max_notices
            THEN [running[p] EXCEPT !.pc = "archive_load"]
            ELSE Ended(p),
            \E n \in Range(data_file) :
                n \notin Range(data_file') \cup Range(archive_file),
            FALSE)
    /\ UNCHANGED archive_file

\* line 95: archived_notices = load_archived_notices()
ArchiveLoad(p) ==
    /\ running[p].pc = "archive_load"
    /\ Step(p,
            [running[p] EXCEPT
                !.archived = load_archived_notices(archive_file, FALSE),
                !.pc = "write_archive"],
            FALSE, FALSE)
    /\ UNCHANGED <<data_file, archive_file>>

\* line 98: open(self.archive_file, "w") truncates the archive file
OpenArchive(p) ==
    /\ running[p].pc = "write_archive"
    /\ archive_file' = << >>
    /\ Step(p,
            [running[p] EXCEPT !.pc = "dump_archive"],
            \E n \in Range(archive_file) :
                n \notin Range(running[p].archived) \cup Range(data_file),
            FALSE)
    /\ UNCHANGED data_file

\* lines 96-101: json.dump of what was loaded and the entries to archive,
\* and the close of the file
DumpArchive(p) ==
    /\ running[p].pc = "dump_archive"
    /\ archive_file' = Dumped(archive_file,
                              running[p].archived
                                \o DropLastK(running[p].all_notices, max_notices))
    /\ Step(p, Ended(p),
            \E n \in Range(archive_file) :
                n \notin Range(archive_file') \cup Range(data_file),
            FALSE)
    /\ UNCHANGED data_file

NextOverlap ==
    \E p \in Procs :
        \/ Begin(p)
        \/ Push(p)
        \/ AppendLoad(p)
        \/ OpenData(p)
        \/ DumpData(p)
        \/ ArchiveLoad(p)
        \/ OpenArchive(p)
        \/ DumpArchive(p)

SpecOverlap == Init /\ [][NextOverlap]_vars

(***************************************************************************)
(* Properties.  They speak of a call through its record: arg is what it    *)
(* was given, before the files it found, out what it did, and data_file    *)
(* and archive_file what it left.                                          *)
(***************************************************************************)
Min(a, b) == IF a < b THEN a ELSE b

\* the last min(Len(s), n) entries of s, in order
LastEntries(s, n) ==
    [ i \in 1..Min(Len(s), n) |-> s[Len(s) - Min(Len(s), n) + i] ]

\* the entries of s before its last n, in order (none when Len(s) <= n)
OverflowPrefix(s, n) ==
    [ i \in 1..(IF Len(s) > n THEN Len(s) - n ELSE 0) |-> s[i] ]

\* the positions of the events of a call that name a call of callee
CallsOf(events, callee) ==
    { i \in 1..Len(events) : events[i][1] = "call" /\ events[i][2] = callee }

\* the positions at which a file was opened for writing
Writes(events) ==
    { i \in 1..Len(events) : events[i][1] \in {"write", "open"} }

\* a cycle that fetched a page, with no file access failing
CleanCycle == op = "monitor" /\ ~arg.raised /\ ~out.io_failed

\* C1: no notice is handed to the transports in two different cycles: a
\* cycle that notifies does not notify a notice that a cycle that returned
\* before it had notified.
NoNoticePushedTwice ==
    (op = "monitor" /\ (out.feishu # << >> \/ out.onebot # << >>))
        => Range(out.new_notices) \cap pushed = {}

\* C2: in every state reached by monitor cycles and store operations from
\* an empty store, the active file holds at most max_notices notices.
ActiveWithinMax == Len(data_file) <= max_notices

\* an append that overflowed the window and left it full
ActiveFullAfterOverflow ==
    /\ op = "append_new_notices"
    /\ Len(before.data) + Len(arg) > max_notices
    /\ Len(data_file) = max_notices
    /\ Len(archive_file) > Len(before.arch)

\* C3: over cycles in which no file access fails, every notice that was
\* written to the active file is in the active file or in the archive file.
EvictedNoticesKept ==
    /\ written \subseteq Range(data_file) \cup Range(archive_file)
    /\ (op = "monitor" /\ WroteData(out.events))
            => Range(before.data) \subseteq Range(data_file) \cup Range(archive_file)

\* a notice once written to the active file has left it for the archive
WrittenNoticeInArchiveOnly ==
    \E n \in written : n \notin Range(data_file) /\ n \in Range(archive_file)

\* C4: save_notices(S), with no file access failing, leaves in the active
\* file exactly the last min(Len(S), max_notices) entries of S; when S is
\* longer than max_notices the archive file is what it was followed by the
\* first Len(S) - max_notices entries of S, and otherwise it is unchanged.
SaveActiveEffect ==
    (op = "save_notices" /\ ~out.io_failed) =>
        /\ data_file = LastEntries(arg, max_notices)
        /\ Len(data_file) = Min(Len(arg), max_notices)
        /\ archive_file = before.arch \o OverflowPrefix(arg, max_notices)
        /\ Len(arg) <= max_notices => archive_file = before.arch

\* a save of a list longer than the window onto an archive that held a notice
SaveActiveOverflowed ==
    /\ op = "save_notices"
    /\ ~out.io_failed
    /\ Len(arg) = max_notices + 1
    /\ before.arch # << >>
    /\ archive_file = Append(before.arch, arg[1])
    /\ data_file = Tail(arg)
    /\ data_file # before.data

\* C5: append_new_notices(N) on an active file A, with no file access
\* failing, leaves the active file equal to the last max_notices entries of
\* A \o N and appends the entries of A \o N before them to the archive.
AppendAndSaveEffect ==
    (op = "append_new_notices" /\ ~out.io_failed) =>
        /\ data_file = LastEntries(before.data \o arg, max_notices)
        /\ archive_file = before.arch \o OverflowPrefix(before.data \o arg, max_notices)

\* the overflow of a full window of two by one appended notice
AppendOverflowExample ==
    /\ op = "append_new_notices"
    /\ ~out.io_failed
    /\ before.data = <<NoticeA, NoticeB>>
    /\ arg = <<NoticeA2>>
    /\ data_file = <<NoticeB, NoticeA2>>
    /\ archive_file = Append(before.arch, NoticeA)

\* C6: a cycle that finds the active file empty and fetches a page that is
\* not empty leaves the active file equal to the page (its last max_notices
\* entries when it is longer) and calls neither transport.
FirstRunStoresWithoutNotifying ==
    (CleanCycle /\ before.data = << >> /\ arg.notices # << >>) =>
        /\ data_file = LastEntries(arg.notices, max_notices)
        /\ out.feishu = << >>
        /\ out.onebot = << >>
        /\ CallsOf(out.events, "feishu") = {}
        /\ CallsOf(out.events, "onebot_send_all") = {}

\* a first run on a page longer than the window
FirstRunLongPage ==
    /\ CleanCycle
    /\ before.data = << >>
    /\ Len(arg.notices) > max_notices
    /\ data_file = Tail(arg.notices)
    /\ out.first_run

\* the notices of a page whose title is no title of the active file
NewOnPage == SelectSeq(arg.notices,
                       LAMBDA n : \A i \in 1..Len(before.data) :
                                      before.data[i].title # n.title)

\* message lists the notices of new_notices, numbered, and counts them
Lists(count, entries, new_notices) ==
    /\ count = Len(new_notices)
    /\ Len(entries) = Len(new_notices)
    /\ \A i \in 1..Len(entries) :
            /\ entries[i].index = i
            /\ entries[i].title = new_notices[i].title
            /\ entries[i].link = new_notices[i].link
            /\ entries[i].date = new_notices[i].date

\* C7: a cycle that finds the active file A not empty and fetches a title
\* that is not in A takes as new notices exactly the fetched notices whose
\* title is no title of A, in page order, calls each transport once with a
\* message that lists exactly these, and leaves the active file equal to
\* the last max_notices entries of A \o new notices.
SteadyStateEffect ==
    (CleanCycle /\ before.data # << >> /\ NewOnPage # << >>) =>
        /\ out.new_notices = NewOnPage
        /\ Len(out.feishu) = 1
        /\ Len(out.onebot) = 1
        /\ Cardinality(CallsOf(out.events, "feishu")) = 1
        /\ Cardinality(CallsOf(out.events, "onebot_send_all")) = 1
        /\ Lists(out.feishu[1].title.count, out.feishu[1].content, NewOnPage)
        /\ Lists(out.onebot[1].v.heading.count, out.onebot[1].v.body, NewOnPage)
        /\ data_file = LastEntries(before.data \o NewOnPage, max_notices)

\* active file [A], page [A under another link, B]: B alone is new
SteadyStateExample ==
    /\ CleanCycle
    /\ before.data = <<NoticeA>>
    /\ arg.notices = <<NoticeA2, NoticeB>>
    /\ out.new_notices = <<NoticeB>>
    /\ out.feishu[1].title.count = 1
    /\ data_file = <<NoticeA, NoticeB>>

\* C8: a cycle whose page has no title that is not in the active file writes
\* neither file and calls no transport.
NoNewNoticesNoEffect ==
    (CleanCycle /\ TitlesOf(arg.notices) \subseteq TitlesOf(before.data)) =>
        /\ Writes(out.events) = {}
        /\ data_file = before.data
        /\ archive_file = before.arch
        /\ out.feishu = << >>
        /\ out.onebot = << >>
        /\ CallsOf(out.events, "feishu") = {}
        /\ CallsOf(out.events, "onebot_send_all") = {}

\* a page that is not empty and repeats a title of the active file under
\* another link
NothingNewOnPage ==
    /\ CleanCycle
    /\ before.data = <<NoticeB, NoticeA>>
    /\ arg.notices = <<NoticeA2>>
    /\ data_file = before.data
    /\ out.events = << <<"load", "data_file">> >>

\* some call of first is followed by a call of second
Then(events, first, second) ==
    \E i \in CallsOf(events, first) : \E j \in CallsOf(events, second) : i < j

\* C9: in a cycle with new notices, a failure of feishu prevents neither
\* the call of onebot_send_all nor the call of append_new_notices after it,
\* and a failure of onebot_send_all does not prevent the call of
\* append_new_notices; with no file access failing the append is written.
TransportIsolation ==
    op = "monitor" =>
        /\ FeishuRaised(out.events) =>
                /\ Then(out.events, "feishu", "onebot_send_all")
                /\ Then(out.events, "onebot_send_all", "append_new_notices")
        /\ OnebotFailed(out.events) =>
                Then(out.events, "onebot_send_all", "append_new_notices")
        /\ ((FeishuRaised(out.events) \/ OnebotFailed(out.events)) /\ ~out.io_failed) =>
                /\ WroteData(out.events)
                /\ data_file = LastEntries(before.data \o out.new_notices, max_notices)

\* both transports failed and the new notice was appended
BothTransportsFailedAndSaved ==
    /\ op = "monitor"
    /\ FeishuRaised(out.events)
    /\ OnebotFailed(out.events)
    /\ before.data = <<NoticeA>>
    /\ out.new_notices = <<NoticeB>>
    /\ data_file = <<NoticeA, NoticeB>>

\* C10: in a fan-out to a list of groups that is not empty, with the URL
\* configured, every group of the list is sent to, in order, whatever the
\* sends before it did, and has its own entry in the results.
EveryDestinationAttempted ==
    (op \in {"onebot_send_all", "onebot_send_groups"}
        /\ ~UrlMissing(arg.url) /\ arg.group_ids # << >>) =>
        /\ Len(out.posts) = Len(arg.group_ids)
        /\ \A i \in 1..Len(out.posts) : out.posts[i].group_id = arg.group_ids[i]
        /\ "results" \in DOMAIN out.result
        /\ \A i \in 1..Len(arg.group_ids) :
                arg.group_ids[i] \in DOMAIN out.result.results

\* C11: send_group_message never raises: it returns the response when its
\* status is "ok", and a value with an "error" key for any other status,
\* for a failure of the POST and for a response that is not JSON.
SendGroupMessageReturns ==
    op = "send_group_message" =>
        /\ ~out.raised
        /\ IF arg.responses[1].kind = "json" /\ arg.responses[1].body.status = "ok"
           THEN out.result = arg.responses[1].body
           ELSE HasError(out.result)

\* some step of the cycle raised: the fetch, a file access or a transport
StepRaised ==
    \/ arg.raised
    \/ out.io_failed
    \/ FeishuRaised(out.events)
    \/ OnebotFailed(out.events)

\* C12: a cycle in which a step raised leaves every notice that was in the
\* active or the archive file in the active or the archive file.
FailedCycleKeepsNotices ==
    (op = "monitor" /\ StepRaised) =>
        Range(before.data) \cup Range(before.arch)
            \subseteq Range(data_file) \cup Range(archive_file)

\* C13: a cycle whose fetch yields no notice changes neither file, does not
\* read the active file and calls no transport, whatever the files hold.
EmptyFetchNoEffect ==
    (op = "monitor" /\ ~arg.raised /\ arg.notices = << >>) =>
        /\ data_file = before.data
        /\ archive_file = before.arch
        /\ out.events = << >>
        /\ out.feishu = << >>
        /\ out.onebot = << >>

\* an empty fetch on files that both hold notices
EmptyFetchOnFilledStore ==
    /\ op = "monitor"
    /\ ~arg.raised
    /\ arg.notices = << >>
    /\ Len(before.data) = max_notices
    /\ before.arch # << >>
    /\ data_file = before.data
    /\ archive_file = before.arch

IsPrefix(s, t) == Len(s) <= Len(t) /\ SubSeq(t, 1, Len(s)) = s

\* C14: the archive is append-only: after a store operation or a monitor
\* cycle that no exception left, what the archive file held before the call
\* is a prefix of what it holds.
ArchiveAppendOnly ==
    (op \in {"monitor", "save_notices", "append_new_notices", "archive_notices"}
        /\ ~out.raised) => IsPrefix(before.arch, archive_file)

\* C15: without a base URL the wrappers onebot_send_all and
\* onebot_send_groups return a result with an "error" key and send to no
\* destination.
MissingUrlIsAnErrorResult ==
    (op \in {"onebot_send_all", "onebot_send_groups"} /\ UrlMissing(arg.url)) =>
        /\ HasError(out.result)
        /\ out.posts = << >>

\* a wrapper called without a URL and with two destinations
WrapperCalledWithoutUrl ==
    /\ op \in {"onebot_send_all", "onebot_send_groups"}
    /\ arg.url = "None"
    /\ Len(arg.group_ids) = 2
    /\ out.result = WrapperError("ValueError")

\* C16: overlapping cycles race on the files, and only overlapping ones:
\* as long as no process has stepped while the other was in a cycle, no
\* notice is pushed whose title the active file holds and no write drops a
\* notice; the race itself is the reachable state SameNoticeNotifiedTwice.
RacesNeedOverlap == (race.stale \/ race.lost) => race.overlapped

\* two overlapping cycles have both notified the same notice
SameNoticeNotifiedTwice ==
    /\ race.overlapped
    /\ race.stale
    /\ running[1].notified \cap running[2].notified # {}

\* a write of one of two overlapping cycles has been overwritten by the
\* other: a notice one cycle notified and wrote is in neither file
OverlapLosesNotice ==
    /\ race.overlapped
    /\ race.lost
    /\ \A p \in Procs : running[p].pc = "idle"
    /\ \E p \in Procs : \E n \in running[p].notified :
            n \notin Range(data_file) \cup Range(archive_file)

\* C17: when every fetched page has at most max_notices notices with
\* pairwise distinct titles, a cycle that wrote the active file is followed
\* by a quiet one if the same page is fetched again: no new notices, no
\* transport invoked, no file written.
QuietAfterPersist ==
    (CleanCycle /\ WroteData(out.events)) =>
        \E next \in { monitor(arg, data_file, archive_file, "none", "ok",
                              NoOnebot.env, NoOnebot.responses) } :
            /\ next.new_notices = << >>
            /\ next.push.feishu = << >>
            /\ next.push.onebot = << >>
            /\ Writes(next.events) = {}
            /\ next.data = data_file
            /\ next.arch = archive_file

\* C18: nothing is retried.  A steady-state cycle in which both transports
\* fail still appends its new notices to the active file, and no later cycle
\* passes to a transport a notice that was not delivered and is still in the
\* active file.
NoInternalRetry ==
    op = "monitor" =>
        /\ (FeishuRaised(out.events) /\ OnebotFailed(out.events)) =>
                /\ ~out.first_run
                /\ WroteData(out.events)
                /\ data_file = LastEntries(before.data \o out.new_notices, max_notices)
        /\ (out.feishu # << >> \/ out.onebot # << >>) =>
                Range(out.new_notices) \cap undelivered \cap Range(before.data) = {}

\* B was not delivered, is still in the active file and still on the page:
\* the cycle passes the new notice C only
UndeliveredNoticeNotRetried ==
    /\ op = "monitor"
    /\ NoticeB \in undelivered
    /\ before.data = <<NoticeA, NoticeB>>
    /\ arg.notices = <<NoticeB, NoticeC>>
    /\ out.new_notices = <<NoticeC>>
    /\ out.feishu # << >>
    /\ FeishuRaised(out.events)
    /\ OnebotFailed(out.events)
    /\ data_file = <<NoticeB, NoticeC>>

\* C19: the summary of a fan-out to a list of groups that is not empty,
\* repeated identifiers included, is consistent: total_groups is the length
\* of the list, success_count + failed_count = total_groups, every
\* destination has an outcome in results, success_count is the number of
\* entries of results without an "error" key and failed_count the number of
\* entries with one.
SummaryConsistent ==
    (op \in {"onebot_send_all", "onebot_send_groups"}
        /\ "results" \in DOMAIN out.result) =>
        /\ out.result.total_groups = Len(arg.group_ids)
        /\ out.result.success_count + out.result.failed_count
                = out.result.total_groups
        /\ \A i \in 1..Len(arg.group_ids) :
                arg.group_ids[i] \in DOMAIN out.result.results
        /\ out.result.success_count
                = Cardinality({ g \in DOMAIN out.result.results :
                                    ~HasError(out.result.results[g]) })
        /\ out.result.failed_count
                = Cardinality({ g \in DOMAIN out.result.results :
                                    HasError(out.result.results[g]) })

====
